---- MODULE Spec2Model ----
(***************************************************************************)
(* Model of the EMORECO audio-analysis backend: the POST /api/analyze-audio *)
(* handler in its four deployed variants                                    *)
(*   "transcribe"  transcription only, inline poll loop                     *)
(*   "parallel"    Promise.all(AssemblyAI, Hugging Face) then Perplexity    *)
(*   "sequential"  AssemblyAI, then Hugging Face (text), then IBM Watson    *)
(*   "fallback"    api/audio-analysis.js, simulated data on every failure   *)
(* One action is one continuation of the JavaScript event loop: the reply   *)
(* of a network call (or the poll timer) and all synchronous code that      *)
(* runs after it up to the next await.                                      *)
(***************************************************************************)
EXTENDS Integers, Sequences, FiniteSets, TLC

\* variant, env : the deployed handler and its credentials
\* req          : the request under study
\* twin         : a second request to the same process (two-request specifications)
\* calc         : one application of calculateWPM (specification SpecWPM)
VARIABLES variant, env, req, twin, calc

vars == <<variant, env, req, twin, calc>>

----------------------------------------------------------------------------
(* Bounds of the explored inputs *)

MaxTextLen == 1
MaxDuration == 1
\* Arguments of calculateWPM when it is studied on its own
MaxWpmTextLen == 3
MaxWpmDuration == 2

(* Program constants *)

maxAttempts == 30
\* axios timeout option of each call, in milliseconds
AssemblyAITimeout == 30000
HuggingFaceTimeout == 15000
WatsonTimeout == 15000
PerplexityTimeout == 30000
DefaultDuration == 30
DefaultConfidence == 85

----------------------------------------------------------------------------
(* JavaScript values *)

\* A text is a sequence of characters; " " is the only whitespace character.
\* null and undefined are both NullText.
NullText == <<"null">>

Chars == {"a", " "}

RECURSIVE TextsUpTo(_)
TextsUpTo(n) ==
  IF n = 0 THEN {<<>>}
  ELSE LET shorter == TextsUpTo(n - 1)
       IN  shorter \cup {Append(t, c) : t \in {u \in shorter : Len(u) = n - 1}, c \in Chars}

Texts == TextsUpTo(MaxTextLen)

\* Numbers are integers; null and undefined are NoNum.
NoNum == 0 - 1

Durations == 0..MaxDuration
Confidences == {0, 90}

NullSentiment == "null"
Sentiments == {"sentiment_results"}

\* !x for a text, a number, a sentiment
FalsyText(t) == t = NullText \/ t = <<>>
FalsyNum(n) == n = NoNum \/ n = 0
FalsySentiment(x) == x = NullSentiment

\* An enrichment value: null, the provider's data, {error: message}, or
\* one of the canned simulated payloads.
EV(kind, v) == [kind |-> kind, v |-> v]
NullEV == EV("null", <<>>)
AbsentEV == EV("absent", <<>>)
ErrorEV(msg) == EV("error", msg)

\* Error messages are sequences of message parts, + is concatenation.
MsgNoFile == <<"No audio file provided">>
MsgNoKey == <<"AssemblyAI API key not configured">>
MsgServerConfig == <<"Server configuration error">>
MsgTimeout == <<"Processing timeout - audio too long or server busy">>
MsgProcessingFailed == <<"Audio processing failed">>
MsgProcessingFailedPrefix == <<"Audio processing failed: ">>
MsgUnknown == <<"Unknown error">>
MsgHFNotConfigured == <<"Hugging Face not configured">>
MsgIBMNotConfigured == <<"IBM Watson not configured">>
MsgPplxNotConfigured == <<"Perplexity AI not configured">>
MsgTypeError == <<"Cannot read properties of undefined (reading 'split')">>
MsgNetwork == <<"Network Error">>
MsgUpstream == <<"upstream failure">>

----------------------------------------------------------------------------
(* calculateWPM *)

\* text.split(/\s+/).length : one more than the number of whitespace runs
RECURSIVE WhitespaceRuns(_, _)
WhitespaceRuns(text, i) ==
  IF i > Len(text) THEN 0
  ELSE (IF text[i] = " " /\ (i = 1 \/ text[i - 1] # " ") THEN 1 ELSE 0)
       + WhitespaceRuns(text, i + 1)

SplitLength(text) == WhitespaceRuns(text, 1) + 1

\* Math.round(n / (d / 60)) for n >= 0, d > 0 : halves round up
RoundPerMinute(n, d) == (2 * 60 * n + d) \div (2 * d)

\* An absent text counts as no words
calculateWPMGuarded(text, audioDuration) ==
  IF FalsyNum(audioDuration) \/ text = NullText THEN [throws |-> FALSE, v |-> 0]
  ELSE [throws |-> FALSE, v |-> RoundPerMinute(SplitLength(text), audioDuration)]

\* The value returned, or a TypeError when split is read off null/undefined.
calculateWPM(text, audioDuration) ==
  IF FalsyNum(audioDuration) THEN [throws |-> FALSE, v |-> 0]
  ELSE IF text = NullText THEN [throws |-> TRUE, v |-> NoNum]
  ELSE [throws |-> FALSE, v |-> RoundPerMinute(SplitLength(text), audioDuration)]

----------------------------------------------------------------------------
(* Results of the transcription service and the simulated payloads *)

Result(status, text, dur, conf, sent, err) ==
  [status |-> status, text |-> text, audio_duration |-> dur,
   confidence |-> conf, sentiment_analysis_results |-> sent, error |-> err]

NoResult == Result("none", NullText, NoNum, NoNum, NullSentiment, NullText)

\* What a status query may return
PendingResults ==
  {Result(st, NullText, NoNum, NoNum, NullSentiment, NullText) : st \in {"queued", "processing"}}

CompletedResults ==
  {Result("completed", t, d, c, s, NullText) :
     t \in Texts \cup {NullText}, d \in Durations \cup {NoNum},
     c \in Confidences \cup {NoNum}, s \in Sentiments \cup {NullSentiment}}

ErrorResults ==
  {Result("error", NullText, NoNum, NoNum, NullSentiment, e) : e \in {NullText, MsgUpstream}}

StatusResults == PendingResults \cup CompletedResults \cup ErrorResults

CannedText ==
  <<"I'm", " ", "telling", " ", "you,", " ", "I", " ", "really", " ", "didn't", " ",
    "know", " ", "about", " ", "the", " ", "meeting.", " ", "It", " ", "must", " ",
    "have", " ", "been", " ", "a", " ", "communication", " ", "error", " ",
    "somewhere", " ", "in", " ", "the", " ", "system.", " ", "I", " ", "would", " ",
    "never", " ", "intentionally", " ", "miss", " ", "something", " ", "that", " ",
    "important.">>

simulateAssemblyAIResults ==
  Result("simulated", CannedText, DefaultDuration, DefaultConfidence, "neutral", NullText)

simulateHuggingFaceResults == EV("canned", <<"simulateHuggingFaceResults">>)

simulateTruthAnalysisReport == EV("canned", <<"simulateTruthAnalysisReport">>)

\* What the providers may return
EmotionData == EV("data", <<"emotion scores">>)
ToneData == EV("data", <<"tone scores">>)
ReportData == EV("data", <<"analysis report">>)

----------------------------------------------------------------------------
(* Responses *)

NoResponse ==
  [status |-> 0, success |-> FALSE, error |-> NullText,
   transcript |-> NullText, wordsPerMinute |-> NoNum, confidence |-> NoNum,
   audioDuration |-> NoNum, sentiment |-> NullSentiment,
   emotions |-> AbsentEV, detailedAnalysis |-> AbsentEV, tones |-> AbsentEV,
   text |-> NullText, sentiments |-> NullSentiment]

\* res.status(code).json({success: false, error: msg})
ErrorResponse(code, msg) ==
  [NoResponse EXCEPT !.status = code, !.success = FALSE, !.error = msg]

generateSimulatedResponse ==
  LET a == simulateAssemblyAIResults
  IN  [NoResponse EXCEPT
         !.status = 200, !.success = TRUE,
         !.transcript = a.text,
         !.wordsPerMinute = calculateWPM(a.text, a.audio_duration).v,
         !.confidence = a.confidence,
         !.audioDuration = a.audio_duration,
         !.sentiment = a.sentiment_analysis_results,
         !.emotions = simulateHuggingFaceResults,
         !.detailedAnalysis = simulateTruthAnalysisReport]

----------------------------------------------------------------------------
(* One request: the handler's locals, the calls it has in flight, and the  *)
(* response it has sent.  calls and waits count what has been issued.       *)

Calls == {"upload", "submit", "status", "hf", "ibm", "pplx"}

\* uploadResponse.data.upload_url and transcriptionResponse.data.id
UploadUrls == {"upload_url_1", "upload_url_2"}
TranscriptIds == {"id_1", "id_2"}
NoLocator == "undefined"

\* What the transcription service answers to the upload and to the submission
Service(url, id) == [upload_url |-> url, id |-> id]

NewRequest(file) ==
  [file |-> file,
   pc |-> "idle",
   inflight |-> {},
   timer |-> FALSE,
   attempts |-> 0,
   result |-> NoResult,
   service |-> Service("upload_url_1", "id_1"),
   audioUrl |-> NoLocator,
   audio_url |-> NoLocator,
   transcriptId |-> NoLocator,
   polledId |-> NoLocator,
   asm |-> "none",
   asmError |-> NullText,
   assemblyResult |-> NoResult,
   huggingResult |-> NullEV,
   hfSettled |-> FALSE,
   ibmResult |-> NullEV,
   perplexityResult |-> NullEV,
   promptEmotions |-> NullEV,
   calls |-> [c \in Calls |-> 0],
   timeout |-> [c \in Calls |-> 0],
   waits |-> 0,
   response |-> NoResponse,
   sent |-> 0]

\* { timeout: ... } of the request configuration
CallTimeout(call) ==
  CASE call = "hf" -> HuggingFaceTimeout
    [] call = "ibm" -> WatsonTimeout
    [] call = "pplx" -> PerplexityTimeout
    [] OTHER -> AssemblyAITimeout

\* axios.post / axios.get : the request leaves, the caller awaits the reply
Issue(s, call) ==
  [s EXCEPT !.inflight = @ \cup {call}, !.calls[call] = @ + 1,
            !.timeout[call] = CallTimeout(call)]

Settle(s, call) == [s EXCEPT !.inflight = @ \ {call}]

\* await new Promise(resolve => setTimeout(resolve, 3000))
StartTimer(s) == [s EXCEPT !.timer = TRUE, !.waits = @ + 1]

\* res.json(...) / res.status(...).json(...)
Send(s, resp) == [s EXCEPT !.response = resp, !.sent = @ + 1, !.pc = "done"]

\* The error is logged and no response is written
CatchAll500Silent(s, msg) == [s EXCEPT !.pc = "done"]

\* catch (error) { res.status(500).json({success: false, error: error.message || ...}) }
CatchAll500(s, msg) ==
  Send(s, ErrorResponse(500, IF msg = <<>> THEN <<"Internal server error">> ELSE msg))

----------------------------------------------------------------------------
(* Step 4 / Step 3: the success response of each variant *)

OrNullSentiment(x) == IF FalsySentiment(x) THEN NullSentiment ELSE x

SendSequential(s) ==
  LET a == s.assemblyResult
      wpm == calculateWPM(a.text, a.audio_duration)
  IN  IF wpm.throws THEN CatchAll500(s, MsgTypeError)
      ELSE Send(s, [NoResponse EXCEPT
                      !.status = 200, !.success = TRUE,
                      !.transcript = a.text,
                      !.wordsPerMinute = wpm.v,
                      !.confidence = a.confidence,
                      !.audioDuration = a.audio_duration,
                      !.emotions = s.huggingResult,
                      !.tones = s.ibmResult,
                      !.sentiment = OrNullSentiment(a.sentiment_analysis_results)])

SendParallel(s) ==
  LET a == s.assemblyResult
      wpm == calculateWPM(a.text, a.audio_duration)
  IN  IF wpm.throws THEN CatchAll500(s, MsgTypeError)
      ELSE Send(s, [NoResponse EXCEPT
                      !.status = 200, !.success = TRUE,
                      !.transcript = a.text,
                      !.wordsPerMinute = wpm.v,
                      !.confidence = a.confidence,
                      !.audioDuration = a.audio_duration,
                      !.sentiment = OrNullSentiment(a.sentiment_analysis_results),
                      !.emotions = s.huggingResult,
                      !.detailedAnalysis = s.perplexityResult])

\* assemblyResult.text || assemblyResult.transcript : no result has a transcript field
TextOrTranscript(a) == IF FalsyText(a.text) THEN NullText ELSE a.text

DurationOrDefault(a) ==
  IF FalsyNum(a.audio_duration) THEN DefaultDuration ELSE a.audio_duration

ConfidenceOrDefault(a) ==
  IF FalsyNum(a.confidence) THEN DefaultConfidence ELSE a.confidence

SendFallback(s) ==
  LET a == s.assemblyResult
      wpm == calculateWPM(TextOrTranscript(a), DurationOrDefault(a))
  IN  IF wpm.throws THEN Send(s, generateSimulatedResponse)
      ELSE Send(s, [NoResponse EXCEPT
                      !.status = 200, !.success = TRUE,
                      !.transcript = TextOrTranscript(a),
                      !.wordsPerMinute = wpm.v,
                      !.confidence = ConfidenceOrDefault(a),
                      !.audioDuration = DurationOrDefault(a),
                      !.sentiment = OrNullSentiment(a.sentiment_analysis_results),
                      !.emotions = s.huggingResult,
                      !.detailedAnalysis = s.perplexityResult])

\* result.sentiment_analysis_results || []
SendTranscribeOnly(s) ==
  Send(s, [NoResponse EXCEPT
             !.status = 200, !.success = TRUE,
             !.text = s.result.text,
             !.sentiments = IF FalsySentiment(s.result.sentiment_analysis_results)
                            THEN "[]" ELSE s.result.sentiment_analysis_results])

----------------------------------------------------------------------------
(* Credentials: process.env, read once when the module is loaded *)

AssemblyAIConfigured == env.ASSEMBLYAI_API_KEY
HuggingFaceConfigured == env.HUGGING_FACE_TOKEN
PerplexityConfigured == env.PERPLEXITY_API_KEY
WatsonConfigured == env.IBM_WATSON_API_KEY /\ env.IBM_WATSON_URL

----------------------------------------------------------------------------
(* Sequential variant: Hugging Face on the transcript, then IBM Watson *)

WatsonReply(s, ok) ==
  SendSequential([Settle(s, "ibm") EXCEPT
                    !.ibmResult = IF ok THEN ToneData ELSE ErrorEV(MsgNetwork)])

processWithIBMWatson(s) ==
  IF ~WatsonConfigured
  THEN SendSequential([s EXCEPT !.ibmResult = ErrorEV(MsgIBMNotConfigured)])
  ELSE [Issue(s, "ibm") EXCEPT !.pc = "ibm"]

\* Step 3: ibmResult stays null when Watson is not configured
WatsonStage(s) ==
  IF WatsonConfigured THEN processWithIBMWatson(s) ELSE SendSequential(s)

HuggingFaceReplySequential(s, ok) ==
  WatsonStage([Settle(s, "hf") EXCEPT
                 !.huggingResult = IF ok THEN EmotionData ELSE ErrorEV(MsgNetwork)])

processWithHuggingFaceText(s) ==
  IF ~HuggingFaceConfigured
  THEN WatsonStage([s EXCEPT !.huggingResult = ErrorEV(MsgHFNotConfigured)])
  ELSE [Issue(s, "hf") EXCEPT !.pc = "hf"]

\* Step 2: huggingResult stays null when Hugging Face is not configured
HuggingFaceStageSequential(s) ==
  IF HuggingFaceConfigured THEN processWithHuggingFaceText(s) ELSE WatsonStage(s)

----------------------------------------------------------------------------
(* Parallel variant: Hugging Face on the audio beside the transcription,   *)
(* then Perplexity on both results                                          *)

PerplexityReplyParallel(s, ok) ==
  SendParallel([Settle(s, "pplx") EXCEPT
                  !.perplexityResult = IF ok THEN ReportData ELSE ErrorEV(MsgNetwork)])

\* The prompt is built (calculateWPM included) before the request leaves.
processWithPerplexity(s) ==
  IF ~PerplexityConfigured
  THEN SendParallel([s EXCEPT !.perplexityResult = ErrorEV(MsgPplxNotConfigured)])
  ELSE IF calculateWPM(s.assemblyResult.text, s.assemblyResult.audio_duration).throws
  THEN SendParallel([s EXCEPT !.perplexityResult = ErrorEV(MsgTypeError)])
  ELSE [Issue(s, "pplx") EXCEPT !.pc = "pplx", !.promptEmotions = s.huggingResult]

\* Step 2: perplexityResult stays null when Perplexity is not configured
PerplexityStageParallel(s) ==
  IF PerplexityConfigured THEN processWithPerplexity(s) ELSE SendParallel(s)

processWithHuggingFaceAudioUnguarded(s) == Issue(s, "hf")

\* processWithHuggingFace(audioFile.buffer).catch(error => ({error: error.message}))
processWithHuggingFaceAudio(s) ==
  IF ~HuggingFaceConfigured
  THEN [s EXCEPT !.huggingResult = ErrorEV(MsgHFNotConfigured), !.hfSettled = TRUE]
  ELSE Issue(s, "hf")

\* The reply settles the second promise of Promise.all; the handler goes on
\* once the first has resolved too, and nobody reads it after a rejection.
HuggingFaceReplyParallel(s, ok) ==
  LET s1 == [Settle(s, "hf") EXCEPT
               !.huggingResult = IF ok THEN EmotionData ELSE ErrorEV(MsgNetwork),
               !.hfSettled = TRUE]
  IN  IF s1.pc = "all" /\ s1.asm = "returned" THEN PerplexityStageParallel(s1) ELSE s1

----------------------------------------------------------------------------
(* Fallback variant: simulated data in place of every failure *)

PerplexityReplyFallback(s, ok) ==
  SendFallback([Settle(s, "pplx") EXCEPT
                  !.perplexityResult = IF ok THEN ReportData ELSE simulateTruthAnalysisReport])

processWithPerplexityFallback(s) ==
  IF calculateWPM(TextOrTranscript(s.assemblyResult), DurationOrDefault(s.assemblyResult)).throws
  THEN SendFallback([s EXCEPT !.perplexityResult = simulateTruthAnalysisReport])
  ELSE [Issue(s, "pplx") EXCEPT !.pc = "pplx", !.promptEmotions = s.huggingResult]

PerplexityStageFallback(s) ==
  IF PerplexityConfigured THEN processWithPerplexityFallback(s)
  ELSE SendFallback([s EXCEPT !.perplexityResult = simulateTruthAnalysisReport])

\* A failed emotion call switches the whole response to simulated data
HuggingFaceReplyFallbackAllSimulated(s, ok) ==
  IF ok THEN PerplexityStageFallback([Settle(s, "hf") EXCEPT !.huggingResult = EmotionData])
  ELSE Send(Settle(s, "hf"), generateSimulatedResponse)

HuggingFaceReplyFallback(s, ok) ==
  PerplexityStageFallback([Settle(s, "hf") EXCEPT
                             !.huggingResult = IF ok THEN EmotionData
                                               ELSE simulateHuggingFaceResults])

HuggingFaceStageFallback(s) ==
  IF HuggingFaceConfigured THEN [Issue(s, "hf") EXCEPT !.pc = "hf"]
  ELSE PerplexityStageFallback([s EXCEPT !.huggingResult = simulateHuggingFaceResults])

----------------------------------------------------------------------------
(* The transcription protocol: upload, submit, poll *)

\* The handler goes on as soon as the transcription resolves
AsmReturnedNoJoin(s) ==
  LET s1 == [s EXCEPT !.asm = "returned", !.assemblyResult = s.result]
  IN  CASE variant = "sequential" -> HuggingFaceStageSequential(s1)
        [] variant = "parallel" -> PerplexityStageParallel(s1)
        [] variant = "fallback" -> HuggingFaceStageFallback(s1)
        [] OTHER -> SendTranscribeOnly(s1)

\* processWithAssemblyAI returned result to the handler that awaits it
AsmReturned(s) ==
  LET s1 == [s EXCEPT !.asm = "returned", !.assemblyResult = s.result]
  IN  CASE variant = "sequential" -> HuggingFaceStageSequential(s1)
        [] variant = "parallel" ->
             IF s1.hfSettled THEN PerplexityStageParallel(s1) ELSE s1
        [] variant = "fallback" -> HuggingFaceStageFallback(s1)
        [] OTHER -> SendTranscribeOnly(s1)

\* Every variant answers 500 when the transcription throws
AsmThrownNoFallback(s, msg) ==
  CatchAll500([s EXCEPT !.asm = "thrown", !.asmError = msg], msg)

\* An error leaves the transcription: the handler's catch answers 500, and
\* the fallback variant goes on with simulateAssemblyAIResults().
AsmThrown(s, msg) ==
  LET s1 == [s EXCEPT !.asm = "thrown", !.asmError = msg]
  IN  IF variant = "fallback"
      THEN HuggingFaceStageFallback([s1 EXCEPT !.assemblyResult = simulateAssemblyAIResults])
      ELSE CatchAll500(s1, msg)

\* if (result.status === 'error') ... if (attempts >= maxAttempts) ... return result
AfterLoop(s) ==
  IF s.result.status = "error"
  THEN AsmThrown(s, IF FalsyText(s.result.error) THEN MsgProcessingFailed ELSE s.result.error)
  ELSE IF s.attempts >= maxAttempts THEN AsmThrown(s, MsgTimeout)
  ELSE AsmReturned(s)

\* The same two tests inline in the transcription-only handler
AfterLoopTranscribeOnly(s) ==
  IF s.result.status = "error"
  THEN LET msg == MsgProcessingFailedPrefix \o
                  (IF FalsyText(s.result.error) THEN MsgUnknown ELSE s.result.error)
       IN  Send([s EXCEPT !.asm = "thrown", !.asmError = msg], ErrorResponse(500, msg))
  ELSE IF s.attempts >= maxAttempts
  THEN Send([s EXCEPT !.asm = "thrown", !.asmError = MsgTimeout], ErrorResponse(500, MsgTimeout))
  ELSE AsmReturned(s)

LoopExit(s) ==
  IF variant = "transcribe" THEN AfterLoopTranscribeOnly(s) ELSE AfterLoop(s)

LoopConditionOffByOne(attempts) == attempts <= maxAttempts

\* while (attempts < maxAttempts)
LoopCondition(attempts) == attempts < maxAttempts

\* attempts++ ahead of the test for a terminal status
PollReplyCountFirst(s, r) ==
  LET s1 == [Settle(s, "status") EXCEPT !.result = r, !.attempts = @ + 1]
  IN  IF r.status = "completed" \/ r.status = "error" THEN LoopExit(s1)
      ELSE IF LoopCondition(s1.attempts) THEN StartTimer(s1) ELSE LoopExit(s1)

\* attempts is one counter of the module, advanced by every request
PollReplySharedCounter(s, r) ==
  LET s1 == [Settle(s, "status") EXCEPT !.result = r]
  IN  IF r.status = "completed" \/ r.status = "error" THEN LoopExit(s1)
      ELSE LET s2 == [s1 EXCEPT !.attempts = req.attempts + twin.attempts + 1]
           IN  IF LoopCondition(s2.attempts) THEN StartTimer(s2) ELSE LoopExit(s2)

\* result = checkResponse.data; break on a terminal status, else attempts++
PollReply(s, r) ==
  LET s1 == [Settle(s, "status") EXCEPT !.result = r]
  IN  IF r.status = "completed" \/ r.status = "error" THEN LoopExit(s1)
      ELSE LET s2 == [s1 EXCEPT !.attempts = @ + 1]
           IN  IF LoopCondition(s2.attempts) THEN StartTimer(s2) ELSE LoopExit(s2)

\* The first failed status query is swallowed and the loop goes on
PollFailureRetryOnce(s) ==
  IF s.calls["status"] = s.attempts + 1 THEN StartTimer(Settle(s, "status"))
  ELSE AsmThrown(Settle(s, "status"), MsgNetwork)

\* axios.get rejects: network error or its 30 s timeout
PollFailure(s) == AsmThrown(Settle(s, "status"), MsgNetwork)

\* The timer resolves and the status query leaves
PollQuery(s) ==
  Issue([s EXCEPT !.timer = FALSE, !.polledId = s.transcriptId], "status")

\* The first status query leaves at once, the wait comes after each reply
SubmitReplyQueryAtOnce(s, ok) ==
  IF ok THEN LET s1 == [Settle(s, "submit") EXCEPT !.transcriptId = s.service.id]
             IN  Issue([s1 EXCEPT !.polledId = s1.transcriptId], "status")
  ELSE AsmThrown(Settle(s, "submit"), MsgNetwork)

\* transcriptId = transcriptionResponse.data.id
SubmitReply(s, ok) ==
  IF ok THEN StartTimer([Settle(s, "submit") EXCEPT !.transcriptId = s.service.id])
  ELSE AsmThrown(Settle(s, "submit"), MsgNetwork)

\* A failed upload is tried once more
UploadReplyRetry(s, ok) ==
  IF ok THEN Issue([Settle(s, "upload") EXCEPT !.audioUrl = s.service.upload_url,
                                                !.audio_url = s.service.upload_url],
                   "submit")
  ELSE IF s.calls["upload"] < 2 THEN Issue(Settle(s, "upload"), "upload")
  ELSE AsmThrown(Settle(s, "upload"), MsgNetwork)

\* audioUrl = uploadResponse.data.upload_url; the submission carries audio_url: audioUrl
UploadReply(s, ok) ==
  IF ok THEN LET s1 == [Settle(s, "upload") EXCEPT !.audioUrl = s.service.upload_url]
             IN  Issue([s1 EXCEPT !.audio_url = s1.audioUrl], "submit")
  ELSE AsmThrown(Settle(s, "upload"), MsgNetwork)

\* The call runs up to its first await: the upload request leaves
processWithAssemblyAI(s) ==
  [Issue(s, "upload") EXCEPT !.asm = "running", !.pc = "asm"]

----------------------------------------------------------------------------
(* app.post('/api/analyze-audio', ...) up to its first await *)

AnalyzeAudioTranscribeOnly(s) ==
  IF ~s.file THEN Send(s, ErrorResponse(400, MsgNoFile))
  ELSE IF ~AssemblyAIConfigured THEN Send(s, ErrorResponse(500, MsgServerConfig))
  ELSE processWithAssemblyAI(s)

AnalyzeAudioSequentialKeyFirst(s) ==
  IF ~AssemblyAIConfigured THEN Send(s, ErrorResponse(500, MsgNoKey))
  ELSE IF ~s.file THEN Send(s, ErrorResponse(400, MsgNoFile))
  ELSE processWithAssemblyAI(s)

AnalyzeAudioSequential(s) ==
  IF ~s.file THEN Send(s, ErrorResponse(400, MsgNoFile))
  ELSE IF ~AssemblyAIConfigured THEN Send(s, ErrorResponse(500, MsgNoKey))
  ELSE processWithAssemblyAI(s)

AnalyzeAudioParallel(s) ==
  IF ~s.file THEN Send(s, ErrorResponse(400, MsgNoFile))
  ELSE IF ~AssemblyAIConfigured THEN Send(s, ErrorResponse(500, MsgNoKey))
  ELSE processWithHuggingFaceAudio([processWithAssemblyAI(s) EXCEPT !.pc = "all"])

AnalyzeAudioFallback(s) ==
  IF ~s.file THEN Send(s, ErrorResponse(400, MsgNoFile))
  ELSE IF ~AssemblyAIConfigured THEN Send(s, generateSimulatedResponse)
  ELSE processWithAssemblyAI(s)

----------------------------------------------------------------------------
(* The state machine *)

Variants == {"transcribe", "sequential", "parallel", "fallback"}

EnvNames ==
  {"ASSEMBLYAI_API_KEY", "HUGGING_FACE_TOKEN", "PERPLEXITY_API_KEY",
   "IBM_WATSON_API_KEY", "IBM_WATSON_URL"}

\* The environment variables each variant reads
EnvRead(v) ==
  CASE v = "transcribe" -> {"ASSEMBLYAI_API_KEY"}
    [] v = "sequential" -> {"ASSEMBLYAI_API_KEY", "HUGGING_FACE_TOKEN",
                            "IBM_WATSON_API_KEY", "IBM_WATSON_URL"}
    [] OTHER -> {"ASSEMBLYAI_API_KEY", "HUGGING_FACE_TOKEN", "PERPLEXITY_API_KEY"}

\* A variable the specification at hand does not use
Unused == [pc |-> "unused"]

Deployments ==
  /\ variant \in Variants
  /\ env \in {e \in [EnvNames -> BOOLEAN] : \A n \in EnvNames \ EnvRead(variant) : ~e[n]}

Init ==
  /\ Deployments
  /\ \E file \in BOOLEAN : req = NewRequest(file)
  /\ twin = Unused
  /\ calc = Unused

Request ==
  /\ req.pc = "idle"
  /\ req' = CASE variant = "transcribe" -> AnalyzeAudioTranscribeOnly(req)
              [] variant = "sequential" -> AnalyzeAudioSequential(req)
              [] variant = "parallel" -> AnalyzeAudioParallel(req)
              [] OTHER -> AnalyzeAudioFallback(req)
  /\ UNCHANGED <<variant, env, twin, calc>>

UploadDone ==
  /\ "upload" \in req.inflight
  /\ \E ok \in BOOLEAN : req' = UploadReply(req, ok)
  /\ UNCHANGED <<variant, env, twin, calc>>

SubmitDone ==
  /\ "submit" \in req.inflight
  /\ \E ok \in BOOLEAN : req' = SubmitReply(req, ok)
  /\ UNCHANGED <<variant, env, twin, calc>>

TimerFires ==
  /\ req.timer
  /\ req' = PollQuery(req)
  /\ UNCHANGED <<variant, env, twin, calc>>

StatusDone ==
  /\ "status" \in req.inflight
  /\ \E r \in StatusResults : req' = PollReply(req, r)
  /\ UNCHANGED <<variant, env, twin, calc>>

StatusFails ==
  /\ "status" \in req.inflight
  /\ req' = PollFailure(req)
  /\ UNCHANGED <<variant, env, twin, calc>>

HuggingFaceDone ==
  /\ "hf" \in req.inflight
  /\ \E ok \in BOOLEAN :
       req' = CASE variant = "sequential" -> HuggingFaceReplySequential(req, ok)
                [] variant = "parallel" -> HuggingFaceReplyParallel(req, ok)
                [] OTHER -> HuggingFaceReplyFallback(req, ok)
  /\ UNCHANGED <<variant, env, twin, calc>>

WatsonDone ==
  /\ "ibm" \in req.inflight
  /\ \E ok \in BOOLEAN : req' = WatsonReply(req, ok)
  /\ UNCHANGED <<variant, env, twin, calc>>

PerplexityDone ==
  /\ "pplx" \in req.inflight
  /\ \E ok \in BOOLEAN :
       req' = IF variant = "parallel" THEN PerplexityReplyParallel(req, ok)
              ELSE PerplexityReplyFallback(req, ok)
  /\ UNCHANGED <<variant, env, twin, calc>>

Next ==
  \/ Request
  \/ UploadDone
  \/ SubmitDone
  \/ TimerFires
  \/ StatusDone
  \/ StatusFails
  \/ HuggingFaceDone
  \/ WatsonDone
  \/ PerplexityDone

Spec == Init /\ [][Next]_vars

----------------------------------------------------------------------------
(* The same handler against a transcription service that hands out any of  *)
(* the locators and job ids                                                 *)

InitProtocol ==
  /\ Deployments
  /\ \E file \in BOOLEAN, url \in UploadUrls, id \in TranscriptIds :
       req = [NewRequest(file) EXCEPT !.service = Service(url, id)]
  /\ twin = Unused
  /\ calc = Unused

SpecProtocol == InitProtocol /\ [][Next]_vars

----------------------------------------------------------------------------
(* Two runs on the same audio against a transcription service that gives   *)
(* both the same replies; the enrichment providers answer each run on      *)
(* their own.                                                              *)

InitPair ==
  /\ Deployments
  /\ \E file \in BOOLEAN : req = NewRequest(file) /\ twin = NewRequest(file)
  /\ calc = Unused

PairRequest ==
  /\ req.pc = "idle" /\ twin.pc = "idle"
  /\ req' = CASE variant = "transcribe" -> AnalyzeAudioTranscribeOnly(req)
              [] variant = "sequential" -> AnalyzeAudioSequential(req)
              [] variant = "parallel" -> AnalyzeAudioParallel(req)
              [] OTHER -> AnalyzeAudioFallback(req)
  /\ twin' = CASE variant = "transcribe" -> AnalyzeAudioTranscribeOnly(twin)
               [] variant = "sequential" -> AnalyzeAudioSequential(twin)
               [] variant = "parallel" -> AnalyzeAudioParallel(twin)
               [] OTHER -> AnalyzeAudioFallback(twin)
  /\ UNCHANGED <<variant, env, calc>>

PairUploadDone ==
  /\ "upload" \in req.inflight /\ "upload" \in twin.inflight
  /\ \E ok \in BOOLEAN : req' = UploadReply(req, ok) /\ twin' = UploadReply(twin, ok)
  /\ UNCHANGED <<variant, env, calc>>

PairSubmitDone ==
  /\ "submit" \in req.inflight /\ "submit" \in twin.inflight
  /\ \E ok \in BOOLEAN : req' = SubmitReply(req, ok) /\ twin' = SubmitReply(twin, ok)
  /\ UNCHANGED <<variant, env, calc>>

PairTimerFires ==
  /\ req.timer /\ twin.timer
  /\ req' = PollQuery(req) /\ twin' = PollQuery(twin)
  /\ UNCHANGED <<variant, env, calc>>

PairStatusDone ==
  /\ "status" \in req.inflight /\ "status" \in twin.inflight
  /\ \E r \in StatusResults : req' = PollReply(req, r) /\ twin' = PollReply(twin, r)
  /\ UNCHANGED <<variant, env, calc>>

PairStatusFails ==
  /\ "status" \in req.inflight /\ "status" \in twin.inflight
  /\ req' = PollFailure(req) /\ twin' = PollFailure(twin)
  /\ UNCHANGED <<variant, env, calc>>

TwinHuggingFaceDone ==
  /\ "hf" \in twin.inflight
  /\ \E ok \in BOOLEAN :
       twin' = CASE variant = "sequential" -> HuggingFaceReplySequential(twin, ok)
                 [] variant = "parallel" -> HuggingFaceReplyParallel(twin, ok)
                 [] OTHER -> HuggingFaceReplyFallback(twin, ok)
  /\ UNCHANGED <<variant, env, req, calc>>

TwinWatsonDone ==
  /\ "ibm" \in twin.inflight
  /\ \E ok \in BOOLEAN : twin' = WatsonReply(twin, ok)
  /\ UNCHANGED <<variant, env, req, calc>>

TwinPerplexityDone ==
  /\ "pplx" \in twin.inflight
  /\ \E ok \in BOOLEAN :
       twin' = IF variant = "parallel" THEN PerplexityReplyParallel(twin, ok)
               ELSE PerplexityReplyFallback(twin, ok)
  /\ UNCHANGED <<variant, env, req, calc>>

NextPair ==
  \/ PairRequest
  \/ PairUploadDone
  \/ PairSubmitDone
  \/ PairTimerFires
  \/ PairStatusDone
  \/ PairStatusFails
  \/ HuggingFaceDone
  \/ WatsonDone
  \/ PerplexityDone
  \/ TwinHuggingFaceDone
  \/ TwinWatsonDone
  \/ TwinPerplexityDone

SpecPair == InitPair /\ [][NextPair]_vars

----------------------------------------------------------------------------
(* Two concurrent requests to one process: their continuations interleave  *)
(* in any order, and every reply is delivered to the request that made the *)
(* call.                                                                   *)

\* Status replies told apart by their payload
TwoStatusResults ==
  {Result("processing", NullText, NoNum, NoNum, NullSentiment, NullText),
   Result("completed", <<"a">>, MaxDuration, 90, "sentiment_results", NullText),
   Result("completed", <<>>, NoNum, NoNum, NullSentiment, NullText),
   Result("error", NullText, NoNum, NoNum, NullSentiment, MsgUpstream)}

InitTwo ==
  /\ Deployments
  /\ \E f1 \in BOOLEAN, f2 \in BOOLEAN : req = NewRequest(f1) /\ twin = NewRequest(f2)
  /\ calc = Unused

FirstStatusDone ==
  /\ "status" \in req.inflight
  /\ \E r \in TwoStatusResults : req' = PollReply(req, r)
  /\ UNCHANGED <<variant, env, twin, calc>>

TwinRequest ==
  /\ twin.pc = "idle"
  /\ twin' = CASE variant = "transcribe" -> AnalyzeAudioTranscribeOnly(twin)
               [] variant = "sequential" -> AnalyzeAudioSequential(twin)
               [] variant = "parallel" -> AnalyzeAudioParallel(twin)
               [] OTHER -> AnalyzeAudioFallback(twin)
  /\ UNCHANGED <<variant, env, req, calc>>

TwinUploadDone ==
  /\ "upload" \in twin.inflight
  /\ \E ok \in BOOLEAN : twin' = UploadReply(twin, ok)
  /\ UNCHANGED <<variant, env, req, calc>>

TwinSubmitDone ==
  /\ "submit" \in twin.inflight
  /\ \E ok \in BOOLEAN : twin' = SubmitReply(twin, ok)
  /\ UNCHANGED <<variant, env, req, calc>>

TwinTimerFires ==
  /\ twin.timer
  /\ twin' = PollQuery(twin)
  /\ UNCHANGED <<variant, env, req, calc>>

TwinStatusDone ==
  /\ "status" \in twin.inflight
  /\ \E r \in TwoStatusResults : twin' = PollReply(twin, r)
  /\ UNCHANGED <<variant, env, req, calc>>

TwinStatusFails ==
  /\ "status" \in twin.inflight
  /\ twin' = PollFailure(twin)
  /\ UNCHANGED <<variant, env, req, calc>>

NextTwo ==
  \/ Request
  \/ UploadDone
  \/ SubmitDone
  \/ TimerFires
  \/ FirstStatusDone
  \/ StatusFails
  \/ HuggingFaceDone
  \/ WatsonDone
  \/ PerplexityDone
  \/ TwinRequest
  \/ TwinUploadDone
  \/ TwinSubmitDone
  \/ TwinTimerFires
  \/ TwinStatusDone
  \/ TwinStatusFails
  \/ TwinHuggingFaceDone
  \/ TwinWatsonDone
  \/ TwinPerplexityDone

SpecTwo == InitTwo /\ [][NextTwo]_vars

----------------------------------------------------------------------------
(* calculateWPM on its own: one call on arguments drawn from bounded sets *)

SixWords ==
  <<"one", " ", "two", " ", "three", " ", "four", " ", "five", " ", "six">>

WpmTexts == TextsUpTo(MaxWpmTextLen) \cup {SixWords, <<"hello">>}

\* seconds; 30 and 60 are the durations of the documented examples
WpmDurations == (0..MaxWpmDuration) \cup {NoNum, DefaultDuration, 2 * DefaultDuration}

InitWPM ==
  /\ Deployments /\ variant # "transcribe"
  /\ req = Unused /\ twin = Unused
  /\ \E t \in WpmTexts, d \in WpmDurations :
        calc = [pc |-> "call", text |-> t, duration |-> d, throws |-> FALSE, v |-> NoNum]

CalculateWPM ==
  /\ calc.pc = "call"
  /\ LET r == calculateWPM(calc.text, calc.duration)
     IN  calc' = [calc EXCEPT !.pc = "returned", !.throws = r.throws, !.v = r.v]
  /\ UNCHANGED <<variant, env, req, twin>>

NextWPM == CalculateWPM

SpecWPM == InitWPM /\ [][NextWPM]_vars

----------------------------------------------------------------------------
(* Properties *)

Done == req.pc = "done"

EnrichmentCalls == {"hf", "ibm", "pplx"}

\* The upload call was answered with a failure: nothing was submitted
UploadFailed ==
  req.calls["upload"] = 1 /\ "upload" \notin req.inflight /\ req.calls["submit"] = 0

\* msg has part as a contiguous piece
Contains(msg, part) ==
  \E i \in 1..(Len(msg) + 1), j \in 0..Len(msg) : SubSeq(msg, i, j) = part

\* C1: when every status query returns a status other than 'completed' and
\* 'error', exactly 30 queries are issued, never a 31st, and the
\* transcription fails with the timeout error.
C1_PollTimeoutAfterThirty ==
  /\ req.calls["status"] <= maxAttempts
  /\ req.attempts <= req.calls["status"]
  /\ req.attempts = maxAttempts =>
       /\ req.calls["status"] = maxAttempts
       /\ "status" \notin req.inflight /\ ~req.timer
       /\ req.asm = "thrown" /\ req.asmError = MsgTimeout
  /\ req.asmError = MsgTimeout => req.attempts = maxAttempts

C1_Witness ==
  req.attempts = maxAttempts /\ req.calls["status"] = maxAttempts /\ req.asmError = MsgTimeout

\* C2: when the upload fails the response is success:false and no enrichment
\* provider is invoked for the request, neither before nor after the failure.
C2_UploadFailureNoEnrichment ==
  UploadFailed =>
    /\ \A c \in EnrichmentCalls : req.calls[c] = 0
    /\ Done /\ ~req.response.success

\* C3: every response of the analysis handlers is success:false, or
\* success:true with a non-null transcript that is the text the
\* transcription service returned for this request.
C3_SuccessHasServiceTranscript ==
  (Done /\ variant # "transcribe" /\ req.response.success) =>
    /\ req.response.transcript # NullText
    /\ req.asm = "returned"
    /\ req.response.transcript = req.result.text

\* C4: once the transcription has completed (with a text), the response is
\* success:true and carries the transcript the service returned, whatever
\* the enrichment providers did.
C4_CompletedTranscriptionSucceeds ==
  (Done /\ variant # "transcribe" /\ req.asm = "returned" /\ req.result.text # NullText) =>
    /\ req.response.success
    /\ req.response.transcript = req.result.text

Tagged(slot, notConfigured) ==
  slot \in {ErrorEV(notConfigured), ErrorEV(MsgNetwork)}

\* C5: in a success response built on a completed transcription the slot of an enrichment provider that failed
\* (not configured, or its call failed) is the tagged placeholder
\* {error: message}: never null, never simulated data.  A slot is thus either
\* the provider's data or tagged, and tagged when the provider is not
\* configured.
C5_FailedProviderSlotTagged ==
  (Done /\ req.response.success /\ req.asm = "returned") =>
    /\ variant # "transcribe" =>
         /\ req.response.emotions = EmotionData
              \/ Tagged(req.response.emotions, MsgHFNotConfigured)
         /\ ~HuggingFaceConfigured => req.response.emotions = ErrorEV(MsgHFNotConfigured)
    /\ variant \in {"parallel", "fallback"} =>
         /\ req.response.detailedAnalysis = ReportData
              \/ Tagged(req.response.detailedAnalysis, MsgPplxNotConfigured)
         /\ ~PerplexityConfigured =>
              req.response.detailedAnalysis = ErrorEV(MsgPplxNotConfigured)
    /\ variant = "sequential" =>
         /\ req.response.tones = ToneData \/ Tagged(req.response.tones, MsgIBMNotConfigured)
         /\ ~WatsonConfigured => req.response.tones = ErrorEV(MsgIBMNotConfigured)

\* C6: with the emotion provider not configured, the generative provider
\* configured and the transcription completed (with a text), the emotions slot is a tagged
\* error, the generative call is still made, and detailedAnalysis is what
\* that call gave.
C6_GenerativeRunsWithoutEmotion ==
  (Done /\ variant \in {"parallel", "fallback"} /\ req.asm = "returned"
     /\ req.result.text # NullText
     /\ ~HuggingFaceConfigured /\ PerplexityConfigured) =>
    /\ req.response.success
    /\ req.response.emotions.kind = "error"
    /\ req.calls["pplx"] = 1
    /\ req.response.detailedAnalysis \in {ReportData, ErrorEV(MsgNetwork)}

\* C7: a provider whose credentials are absent is never called over the
\* network; its not-configured outcome is produced locally.
C7_NoCallWithoutCredentials ==
  /\ ~HuggingFaceConfigured => req.calls["hf"] = 0
  /\ ~PerplexityConfigured => req.calls["pplx"] = 0
  /\ ~WatsonConfigured => req.calls["ibm"] = 0

C7_Witness ==
  /\ Done /\ req.asm = "returned" /\ req.response.success
  /\ variant = "parallel" /\ ~HuggingFaceConfigured /\ ~PerplexityConfigured
  /\ req.response.emotions = ErrorEV(MsgHFNotConfigured)
  /\ req.calls["hf"] = 0 /\ req.calls["pplx"] = 0

\* C8: when the first status query returns 'completed' with text T, the
\* response is success:true and its transcript equals T.
C8_FirstPollCompletedGivesTranscript ==
  (Done /\ variant # "transcribe" /\ req.calls["status"] = 1
     /\ req.result.status = "completed" /\ req.result.text # NullText) =>
    /\ req.response.success
    /\ req.response.transcript = req.result.text

\* C9: when a status query returns 'error', polling stops, the transcription
\* fails with the upstream message, and the response is 500 success:false
\* with an error text that contains that message.
C9_ErrorStatusAnswers500 ==
  req.result.status = "error" =>
    /\ "status" \notin req.inflight /\ ~req.timer
    /\ req.asm = "thrown"
    /\ req.result.error # NullText => Contains(req.asmError, req.result.error)
    /\ Done /\ req.response.status = 500 /\ ~req.response.success
    /\ req.result.error # NullText => Contains(req.response.error, req.result.error)

\* C10: a request without an audio file is answered at once with 400
\* {success:false, error:'No audio file provided'}, before the credential
\* check, and no call to any service is issued for it.
C10_MissingAudioRejected ==
  (~req.file /\ req.pc # "idle") =>
    /\ req.sent = 1
    /\ req.response = ErrorResponse(400, MsgNoFile)
    /\ \A c \in Calls : req.calls[c] = 0
    /\ req.inflight = {} /\ ~req.timer /\ req.waits = 0

C10_Witness ==
  ~req.file /\ ~AssemblyAIConfigured /\ Done /\ req.response.status = 400

\* C11: with the transcription credential unset and an audio file present, the
\* response is 500 success:false and no upload, submission, status query or
\* enrichment call is issued.
C11_MissingKeyAnswers500 ==
  (req.file /\ ~AssemblyAIConfigured /\ req.pc # "idle") =>
    /\ req.sent = 1
    /\ req.response.status = 500 /\ ~req.response.success
    /\ \A c \in Calls : req.calls[c] = 0
    /\ req.inflight = {} /\ ~req.timer

----------------------------------------------------------------------------
(* Every network call returns or fails within its timeout and every timer  *)
(* fires: a continuation that stays enabled is eventually run.              *)

Fairness ==
  /\ WF_vars(Request)
  /\ WF_vars(UploadDone)
  /\ WF_vars(SubmitDone)
  /\ WF_vars(TimerFires)
  /\ WF_vars(StatusDone \/ StatusFails)
  /\ WF_vars(HuggingFaceDone)
  /\ WF_vars(WatsonDone)
  /\ WF_vars(PerplexityDone)

FairSpec == Spec /\ Fairness

\* C12: provided every call eventually returns or fails, every request is
\* eventually answered, exactly once, with a JSON body that carries a
\* success boolean; it is never answered twice.
C12_AnsweredExactlyOnce ==
  /\ [](req.sent <= 1)
  /\ [](req.sent = 1 => req.response.status \in {200, 400, 500}
                        /\ req.response.success \in BOOLEAN)
  /\ <>[](Done /\ req.sent = 1)

\* The transcription failed while the emotion call of Promise.all was still
\* out; its reply arrives after the response.
C12_Witness ==
  /\ variant = "parallel" /\ Done /\ req.sent = 1
  /\ req.asm = "thrown" /\ req.hfSettled /\ req.calls["hf"] = 1


\* C13: in the parallel and fallback variants the generative-report call of
\* a request begins only after the emotion step of that request has
\* finished (returned data, been caught as an error, or been replaced by
\* simulated data): once Perplexity has been called or its slot filled, no
\* Hugging Face call is in flight and the emotion result is in place.
C13_ReportAfterEmotion ==
  (variant \in {"parallel", "fallback"}
     /\ (req.calls["pplx"] > 0 \/ req.perplexityResult # NullEV)) =>
    /\ "hf" \notin req.inflight
    /\ req.huggingResult # NullEV
    /\ variant = "parallel" => req.hfSettled

C13_Witness ==
  /\ variant = "parallel"
  /\ "pplx" \in req.inflight
  /\ req.calls["hf"] = 1
  /\ req.huggingResult = ErrorEV(MsgNetwork)


\* The enrichment calls of each variant that take the transcript text
TextCalls ==
  CASE variant = "sequential" -> {"hf", "ibm"}
    [] variant \in {"parallel", "fallback"} -> {"pplx"}
    [] OTHER -> {}

TranscriptionPending ==
  req.timer \/ req.inflight \cap {"upload", "submit", "status"} # {}

\* The ordering alone: the transcription has ended, one way or the other
C14_TextCallsAfterTerminal ==
  \A c \in TextCalls : req.calls[c] > 0 =>
    req.asm \in {"returned", "thrown"} /\ ~TranscriptionPending

\* C14: an enrichment call that takes the transcript text (text emotion
\* classification, tone analysis, generative analysis) is started only
\* after the transcription of the same request has completed: it has
\* returned its result and none of its calls or timers is pending.
C14_TextCallsAfterTranscription ==
  \A c \in TextCalls : req.calls[c] > 0 =>
    req.asm = "returned" /\ ~TranscriptionPending


\* C15: within one request the upload call and the job-submission call are
\* each issued at most once (as is every enrichment call); once the
\* transcription has failed none of its calls or timers is pending, so a
\* failure is never followed by another attempt; only the status query of
\* the poll loop is repeated.
C15_NoRetry ==
  /\ \A c \in Calls \ {"status"} : req.calls[c] <= 1
  /\ req.asm = "thrown" => ~TranscriptionPending

C15_Witness ==
  /\ Done
  /\ req.asm = "thrown" /\ req.asmError = MsgNetwork
  /\ req.calls["upload"] = 1 /\ req.calls["submit"] = 1 /\ req.calls["status"] = 0


\* Number of non-empty tokens of text split on runs of whitespace
NonEmptyTokens(text) ==
  Cardinality({i \in 1..Len(text) : text[i] # " " /\ (i = 1 \/ text[i - 1] = " ")})

\* C16: calculateWPM(text, duration) returns round(W / (duration / 60)),
\* W the number of non-empty tokens of text split on runs of whitespace,
\* and 0 when the duration is zero or absent, for every text (the empty
\* string and texts with leading or trailing whitespace included).
C16_WordsPerMinute ==
  calc.pc = "returned" =>
    /\ ~calc.throws
    /\ calc.v = IF FalsyNum(calc.duration) THEN 0
                ELSE RoundPerMinute(NonEmptyTokens(calc.text), calc.duration)

\* The two documented examples, and texts without empty tokens in general
C16_Examples ==
  calc.pc = "returned" =>
    /\ (calc.text = SixWords /\ calc.duration = DefaultDuration) => calc.v = 12
    /\ (calc.text = <<"hello">> /\ calc.duration = 0) => calc.v = 0
    /\ (calc.text # <<>> /\ calc.text[1] # " " /\ calc.text[Len(calc.text)] # " "
          /\ ~FalsyNum(calc.duration))
         => calc.v = RoundPerMinute(NonEmptyTokens(calc.text), calc.duration)


\* transcript and audioMetrics of a response
TranscriptAndMetrics(resp) ==
  <<resp.transcript, resp.wordsPerMinute, resp.confidence, resp.audioDuration,
    resp.sentiment>>

\* C17: two requests with the same audio, answered by the transcription
\* service with the same sequence of replies, carry the same transcript and
\* audioMetrics in their responses, whatever the enrichment providers
\* returned to each of them.
C17_SameTranscriptAndMetrics ==
  (req.sent = 1 /\ twin.sent = 1) =>
    /\ TranscriptAndMetrics(req.response) = TranscriptAndMetrics(twin.response)
    /\ req.response.success = twin.response.success

C17_Witness ==
  /\ req.sent = 1 /\ twin.sent = 1
  /\ req.response.success /\ req.asm = "returned"
  /\ req.response.transcript # NullText
  /\ req.huggingResult = EmotionData /\ twin.huggingResult # EmotionData
  /\ req.perplexityResult # twin.perplexityResult


\* The join alone: in the parallel variant a success response is sent only
\* after both promises of Promise.all have settled.
C18_JoinedBeforeSuccess ==
  (variant = "parallel" /\ req.sent = 1 /\ req.response.success) =>
    /\ req.hfSettled /\ "hf" \notin req.inflight
    /\ req.asm = "returned" /\ ~TranscriptionPending

\* With an emotion call that failed and a completed transcription carrying
\* a text, the parallel variant answers success:true with that text.
C18_EmotionFailureWithText ==
  (variant = "parallel" /\ Done /\ req.huggingResult.kind = "error"
     /\ req.result.status = "completed" /\ req.result.text # NullText) =>
    /\ req.asm = "returned" /\ req.assemblyResult = req.result
    /\ req.response.success
    /\ req.response.transcript = req.result.text
    /\ req.response.emotions = req.huggingResult

\* C18: in the parallel variant (Promise.all of transcription and emotion
\* classification) a success response is sent only after both calls have
\* settled, and a failed emotion call neither cancels nor fails the
\* transcription: when the transcription completed, its result is used and
\* the response is success:true.
C18_EmotionFailureKeepsSuccess ==
  /\ C18_JoinedBeforeSuccess
  /\ (variant = "parallel" /\ Done /\ req.huggingResult.kind = "error"
        /\ req.result.status = "completed") =>
       /\ req.asm = "returned" /\ req.assemblyResult = req.result
       /\ req.response.success
       /\ req.response.transcript = req.result.text


\* The poll counter of a request counts the non-terminal replies to its own
\* status queries.
OwnCounter(s) ==
  s.attempts = s.calls["status"]
               - (IF "status" \in s.inflight THEN 1 ELSE 0)
               - (IF s.result.status \in {"completed", "error"} THEN 1 ELSE 0)
               - (IF s.asmError = MsgNetwork /\ s.calls["status"] > 0 THEN 1 ELSE 0)

\* The results a request holds are those its own calls were answered with.
OwnResults(s) ==
  /\ s.asm = "returned" => s.assemblyResult = s.result
  /\ s.calls["hf"] = 0 => s.huggingResult \notin {EmotionData, ErrorEV(MsgNetwork)}
  /\ s.calls["pplx"] = 0 => s.perplexityResult \notin {ReportData, ErrorEV(MsgNetwork)}
  /\ s.calls["ibm"] = 0 => s.ibmResult \notin {ToneData, ErrorEV(MsgNetwork)}
  /\ (s.sent = 1 /\ s.response.success /\ s.asm = "returned" /\ variant # "transcribe") =>
       /\ s.response.emotions \in {s.huggingResult, simulateHuggingFaceResults}
       /\ s.response.transcript \in {s.assemblyResult.text, NullText, CannedText}

\* C19: with two requests interleaved in any order, a step of one request
\* leaves the other request's state untouched, the poll counter and the
\* results of each request come from its own calls alone, and the
\* credentials (and the deployed handler) never change.
C19_NoSharedState ==
  /\ [](OwnCounter(req) /\ OwnCounter(twin) /\ OwnResults(req) /\ OwnResults(twin))
  /\ [][/\ env' = env /\ variant' = variant
        /\ req' # req => twin' = twin
        /\ twin' # twin => req' = req]_vars

C19_Witness ==
  /\ req.sent = 1 /\ twin.sent = 1
  /\ req.attempts = 2 /\ twin.attempts = 1
  /\ req.response.success /\ ~twin.response.success
  /\ req.asm = "returned" /\ twin.asmError = MsgUpstream


\* C20: a status query that returns 'completed', the 30th included, makes
\* processWithAssemblyAI return that query's result and no timeout; after
\* 'completed' or 'error' no status query is issued or scheduled; after any
\* other status, with fewer than 30 replies counted, the next query is
\* scheduled; the timeout is raised only after 30 queries that all returned
\* another status.
C20_PollLoop ==
  /\ req.result.status = "completed" =>
       /\ req.asm = "returned" /\ req.asmError = NullText
       /\ req.assemblyResult = req.result
  /\ req.result.status \in {"completed", "error"} =>
       "status" \notin req.inflight /\ ~req.timer
  /\ (req.asm = "running" /\ req.result.status \in {"queued", "processing"}
        /\ "status" \notin req.inflight) =>
       req.timer /\ req.attempts < maxAttempts
  /\ req.asmError = MsgTimeout =>
       /\ req.calls["status"] = maxAttempts
       /\ req.result.status \in {"queued", "processing"}

C20_Witness ==
  /\ req.calls["status"] = maxAttempts
  /\ req.result.status = "completed" /\ req.result.text = <<"a">>
  /\ req.asm = "returned" /\ req.assemblyResult = req.result
  /\ req.sent = 1 /\ req.response.success


\* C21: a success response built from a completed transcription whose
\* reported duration is zero or absent has wordsPerMinute 0.
C21_ZeroDurationGivesZeroWPM ==
  (req.sent = 1 /\ variant # "transcribe" /\ req.response.success
     /\ req.asm = "returned" /\ req.result.status = "completed"
     /\ req.response.transcript = req.result.text
     /\ FalsyNum(req.result.audio_duration)) =>
    req.response.wordsPerMinute = 0

\* The same outside the fallback variant, where the duration is passed on
\* as the service reported it
C21_ZeroDurationUnchanged ==
  (req.sent = 1 /\ variant \in {"sequential", "parallel"} /\ req.response.success
     /\ req.asm = "returned" /\ FalsyNum(req.result.audio_duration)) =>
    /\ req.response.wordsPerMinute = 0
    /\ req.response.audioDuration = req.result.audio_duration


\* C22: the submission is issued only after the upload succeeded and
\* carries the locator the upload returned; every status query is issued
\* only after the submission succeeded and carries the job id it returned;
\* and every status query, the first included, follows one wait of its own.
C22_ProtocolOrder ==
  /\ req.calls["submit"] > 0 =>
       /\ req.calls["upload"] = 1 /\ "upload" \notin req.inflight
       /\ req.audioUrl = req.service.upload_url
       /\ req.audio_url = req.service.upload_url
  /\ req.calls["submit"] = 0 => req.audio_url = NoLocator
  /\ (req.calls["status"] > 0 \/ req.waits > 0) =>
       /\ req.calls["submit"] = 1 /\ "submit" \notin req.inflight
       /\ req.transcriptId = req.service.id
  /\ req.calls["status"] > 0 => req.polledId = req.service.id
  /\ req.calls["status"] = 0 => req.polledId = NoLocator
  /\ req.waits = req.calls["status"] + (IF req.timer THEN 1 ELSE 0)
  /\ req.asm = "thrown" /\ req.calls["status"] = 0 /\ req.calls["submit"] = 0 =>
       req.audioUrl = NoLocator

C22_Witness ==
  /\ req.service = Service("upload_url_2", "id_2")
  /\ req.calls["status"] = 2 /\ "status" \in req.inflight
  /\ req.audio_url = "upload_url_2" /\ req.polledId = "id_2"
  /\ req.waits = 2


\* The emotion call of the request returned the provider's data
EmotionCallSucceeded == req.calls["hf"] = 1 /\ req.huggingResult = EmotionData

\* The emotions handed to the generative call are those the handler holds
C23_PromptCarriesEmotions ==
  req.calls["pplx"] > 0 => req.promptEmotions = req.huggingResult

\* The pass-through wherever the response is assembled from the handler's
\* own results (in the fallback variant: unless the assembly raised)
C23_EmotionsPassThroughUnlessSimulated ==
  (req.sent = 1 /\ req.response.success /\ EmotionCallSucceeded
     /\ req.response # generateSimulatedResponse) =>
    req.response.emotions = EmotionData

\* C23: when the emotion call of a request succeeded, the emotions field of
\* its (success) response is exactly the value the provider returned, and
\* that same value is what the generative call was given.
C23_EmotionsPassThrough ==
  /\ (req.sent = 1 /\ req.response.success /\ EmotionCallSucceeded) =>
       req.response.emotions = EmotionData
  /\ (req.calls["pplx"] > 0 /\ EmotionCallSucceeded) =>
       req.promptEmotions = EmotionData


\* The emotion and tone calls carry the 15 s timeout, the transcription
\* calls 30 s
C24_OtherTimeouts ==
  /\ \A c \in {"hf", "ibm"} : req.calls[c] > 0 => req.timeout[c] = 15000
  /\ \A c \in {"upload", "submit", "status"} : req.calls[c] > 0 => req.timeout[c] = 30000

\* C24: every enrichment call (emotion classification, tone analysis,
\* generative analysis) is issued with a timeout of 15 seconds.
C24_EnrichmentTimeout ==
  \A c \in {"hf", "ibm", "pplx"} : req.calls[c] > 0 => req.timeout[c] = 15000


\* A status query of the request has failed
StatusQueryFailed == req.asmError = MsgNetwork /\ req.calls["status"] > 0

\* C25: a status query that itself fails (network error or its timeout)
\* ends the transcription at once with that error, after any number of
\* queries: the failed query is not retried, no timer is set and no status
\* query is issued afterwards.
C25_FailedQueryEndsPolling ==
  /\ [](StatusQueryFailed =>
          /\ req.asm = "thrown"
          /\ "status" \notin req.inflight /\ ~req.timer
          /\ req.attempts = req.calls["status"] - 1
          /\ req.result.status \notin {"completed", "error"})
  /\ [][StatusQueryFailed => req'.calls["status"] = req.calls["status"]]_vars
  /\ [][("status" \in req.inflight /\ "status" \notin req'.inflight
           /\ req'.result = req.result /\ req'.attempts = req.attempts) =>
          /\ req'.asm = "thrown" /\ req'.asmError = MsgNetwork
          /\ ~req'.timer
          /\ req'.calls["status"] = req.calls["status"]]_vars

C25_Witness ==
  /\ StatusQueryFailed /\ Done
  /\ req.calls["status"] = 3 /\ req.attempts = 2
  /\ req.asm = "thrown"


\* C26: in the fallback variant every request that carries an audio file
\* is answered 200 success:true, whatever became of the key, the upload,
\* the submission, the polling, the enrichment calls or the assembly of the
\* response; the 400 for a missing file is its only success:false response.
C26_FallbackAlwaysSucceeds ==
  variant = "fallback" =>
    /\ Done => req.sent = 1
    /\ (req.sent = 1 /\ req.file) =>
         req.response.status = 200 /\ req.response.success
    /\ (req.sent = 1 /\ ~req.response.success) =>
         ~req.file /\ req.response.status = 400

C26_Witness ==
  /\ variant = "fallback" /\ req.file /\ req.sent = 1
  /\ req.asm = "thrown" /\ req.asmError = MsgTimeout
  /\ req.calls["hf"] = 1 /\ req.huggingResult = simulateHuggingFaceResults
  /\ req.calls["pplx"] = 1 /\ req.perplexityResult = simulateTruthAnalysisReport
  /\ req.response.success


\* C27: in the sequential and parallel variants, a transcription job that
\* completes with an absent text is answered 500 success:false when its
\* duration is non-zero (the words-per-minute computation raises), and
\* success:true with an absent transcript and 0 words per minute when its
\* duration is zero or absent.
C27_AbsentTextOutcome ==
  (Done /\ variant \in {"sequential", "parallel"}
     /\ req.result.status = "completed" /\ req.result.text = NullText) =>
    IF FalsyNum(req.result.audio_duration)
    THEN /\ req.response.status = 200 /\ req.response.success
         /\ req.response.transcript = NullText
         /\ req.response.wordsPerMinute = 0
    ELSE /\ req.response.status = 500 /\ ~req.response.success
         /\ req.response.error = MsgTypeError

C27_Witness ==
  /\ Done /\ variant = "sequential"
  /\ req.result.status = "completed" /\ req.result.text = NullText
  /\ req.result.audio_duration = MaxDuration
  /\ req.calls["hf"] = 1 /\ req.calls["ibm"] = 1
  /\ req.response.status = 500 /\ req.response.error = MsgTypeError

\* The other branch of C27 is reached as well
C27_ZeroDurationReached ==
  /\ Done /\ variant = "parallel"
  /\ req.result.status = "completed" /\ req.result.text = NullText
  /\ req.result.audio_duration = 0
  /\ req.response.success /\ req.response.transcript = NullText

====
